---------------------------- MODULE Spec2Model ----------------------------
(***************************************************************************)
(* A model of the Raft peer of raft/raft.go and of its in-memory log       *)
(* (raft/log.go, here src/unnamed/part_000).  A peer is a record r with    *)
(* the fields of the Go struct Raft; every handler of the source is an     *)
(* operator from the record before the call to the record after it.  The   *)
(* cluster is the function raft from peer ids to such records; r.msgs, the  *)
(* peer's outbound buffer, also stands for the messages the host has taken  *)
(* from it and that are still on the wire, so the network is the union of   *)
(* the buffers and may delay, reorder, duplicate and lose messages.         *)
(***************************************************************************)
EXTENDS Integers, Sequences, FiniteSets, TLC

VARIABLES
    raft,       \* raft[i]: the Raft struct of peer i (with its RaftLog)
    elected,    \* history: the <<term, id>> of every call of becomeLeader
    voted,      \* history: <<voter, term, candidate>> of every vote given
    everCommitted, \* history: <<index, entry term, committer's term>>
    proposed,   \* history: the entries proposed at a leader of the highest term
    cut         \* the links <<from, to>> that are down: what is sent on them is lost

vars == <<raft, elected, voted, everCommitted, proposed, cut>>

----------------------------------------------------------------------------
(* Bounds of the model. *)

MaxTerm == 3        \* no election is started beyond this term
MaxLogLen == 2      \* no step is taken that makes a log longer than this
MaxMsgs == 3        \* no step is taken that leaves more messages in flight
MaxData == 1        \* proposals carry a payload in 1..MaxData
MaxPropose == 1     \* a MsgPropose carries 1..MaxPropose entries
SoloLogLen == 4     \* the longest log of the single-peer cluster
SoloPersisted == 2  \* the most entries a restarted peer finds in its storage
SoloPropose == 2    \* a MsgPropose to the single peer carries 1..SoloPropose entries
SlowMaxTerm == 4    \* the bounds of the cluster with a slow link
SlowLogLen == 4
SlowMsgs == 5
SlowPropose == 2
TimerMaxTerm == 2   \* the highest term of the cluster driven by the timer
FourMaxTerm == 1    \* the bounds of the cluster of four peers
FourLogLen == 1
FourMsgs == 6
RemovedMaxTerm == 1 \* the bounds of the cluster with a removed peer
RemovedMsgs == 4
RemovedPersisted == 1

(* Program constants and configuration. *)

None == 0
ElectionTick == 2
HeartbeatTick == 1

StateFollower == "StateFollower"
StateCandidate == "StateCandidate"
StateLeader == "StateLeader"

MsgHup == "MsgHup"
MsgBeat == "MsgBeat"
MsgPropose == "MsgPropose"
MsgAppend == "MsgAppend"
MsgAppendResponse == "MsgAppendResponse"
MsgRequestVote == "MsgRequestVote"
MsgRequestVoteResponse == "MsgRequestVoteResponse"
MsgSnapshot == "MsgSnapshot"
MsgHeartbeat == "MsgHeartbeat"
MsgHeartbeatResponse == "MsgHeartbeatResponse"
MsgTransferLeader == "MsgTransferLeader"
MsgTimeoutNow == "MsgTimeoutNow"

ErrNil == "nil"
ErrCompacted == "ErrCompacted"
ErrUnavailable == "ErrUnavailable"
ErrIndexOutOfRange == "index out of range"
ErrProposalDropped == "raft proposal dropped"

min(a, b) == IF a > b THEN b ELSE a
max(a, b) == IF a > b THEN a ELSE b

(* pb.Entry and pb.Message: every field the source reads or writes. *)
Entry(term, index, data) == [Term |-> term, Index |-> index, Data |-> data]

Message(type, to, from, term, logTerm, index, entries, commit, reject) ==
    [MsgType |-> type, To |-> to, From |-> from, Term |-> term,
     LogTerm |-> logTerm, Index |-> index, Entries |-> entries,
     Commit |-> commit, Reject |-> reject]

LocalMsg(type, entries) ==
    Message(type, None, None, 0, 0, 0, entries, 0, FALSE)

----------------------------------------------------------------------------
(* Storage.  The model keeps of it what newLog and Term read: the index of  *)
(* the dummy entry before the first one (its term is snapTerm) and the      *)
(* entries persisted when the peer was constructed.                         *)

StorageFirstIndex(s) == s.snapIndex + 1
StorageLastIndex(s) == s.snapIndex + Len(s.ents)

StorageTerm(s, i) ==
    IF i < s.snapIndex THEN [term |-> 0, err |-> ErrCompacted]
    ELSE IF i > StorageLastIndex(s) THEN [term |-> 0, err |-> ErrUnavailable]
    ELSE IF i = s.snapIndex THEN [term |-> s.snapTerm, err |-> ErrNil]
    ELSE [term |-> s.ents[i - s.snapIndex].Term, err |-> ErrNil]

(* What the host leaves of the storage when it compacts it up to index i:   *)
(* the entry at i becomes the dummy entry, the entries up to it are gone.   *)
StorageCompact(s, i) ==
    [snapIndex |-> i,
     snapTerm |-> StorageTerm(s, i).term,
     ents |-> SubSeq(s.ents, i - s.snapIndex + 1, Len(s.ents))]

EmptyStorage == [snapIndex |-> 0, snapTerm |-> 0, ents |-> <<>>]

----------------------------------------------------------------------------
(* RaftLog.  l.entries[k] of the model is l.entries[k-1] of the source.     *)
(* pendingSnapshot is never assigned in the source and is left out.         *)

newLog(storage) ==
    [storage |-> storage,
     committed |-> 0,
     applied |-> StorageFirstIndex(storage) - 1,
     stabled |-> StorageLastIndex(storage),
     entries |-> storage.ents,
     first |-> StorageFirstIndex(storage)]

LastIndex(l) ==
    IF Len(l.entries) > 0
    THEN max(l.entries[Len(l.entries)].Index, 0)
    ELSE max(StorageLastIndex(l.storage), 0)

(* Term returns (term, err).  An index past the in-memory entries is a Go   *)
(* run-time panic (index out of range), reported here as an error value.    *)
LogTerm(l, i) ==
    IF Len(l.entries) > 0 /\ i >= l.first
    THEN IF i - l.first < Len(l.entries)
         THEN [term |-> l.entries[i - l.first + 1].Term, err |-> ErrNil]
         ELSE [term |-> 0, err |-> ErrIndexOutOfRange]
    ELSE StorageTerm(l.storage, i)

FirstIndex(l) == l.first

toEntryIndex(l, si) == si + l.first

(* toSliceIndex panics on a negative result; the callers below test         *)
(* SliceIndexOk before they use it.                                         *)
SliceIndexOk(l, ei) == ei - l.first >= 0
toSliceIndex(l, ei) == ei - l.first

(* l.entries[toSliceIndex(idx):] is a run-time panic (slice bounds out of   *)
(* range) when idx is more than one past the last entry in memory.          *)
CompactInRange(l) ==
    LET idx == StorageFirstIndex(l.storage)
    IN (idx > l.first /\ Len(l.entries) > 0)
           => toSliceIndex(l, idx) <= Len(l.entries)

maybeCompact(l) ==
    LET idx == StorageFirstIndex(l.storage)
    IN IF idx > l.first
       THEN [l EXCEPT !.entries = IF Len(@) > 0
                                  THEN SubSeq(@, toSliceIndex(l, idx) + 1, Len(@))
                                  ELSE @,
                      !.first = idx]
       ELSE l

isUpToDate(l, index, term) ==
    LET lastIndex == LastIndex(l)
        lastLogTerm == LogTerm(l, lastIndex).term
    IN term > lastLogTerm \/ (term = lastLogTerm /\ index >= lastIndex)

(* sort.Search(n, f): the binary search of the Go library, with f given as  *)
(* a function on 0..n-1.                                                    *)
RECURSIVE SearchLoop(_, _, _)
SearchLoop(i, j, f) ==
    IF i < j
    THEN LET h == (i + j) \div 2
         IN IF ~f[h] THEN SearchLoop(h + 1, j, f) ELSE SearchLoop(i, h, f)
    ELSE i

Search(n, f) == SearchLoop(0, n, f)

----------------------------------------------------------------------------
(* Raft.  leadTransferee and PendingConfIndex are never read or written by  *)
(* the source and are left out.  fatal is set where the Go code would       *)
(* abort: an explicit panic or a run-time error (index out of range, nil    *)
(* dereference).  rnd stands for the value rand.Intn(r.electionTimeout)     *)
(* returns.                                                                 *)

Panic(r) == [r EXCEPT !.fatal = TRUE]

send(r, m) == [r EXCEPT !.msgs = @ \cup {m}]

resetRandomizedElectionTimeout(r, rnd) ==
    [r EXCEPT !.randomizedElectionTimeout = r.electionTimeout + rnd]

(* A variant of becomeFollower that keeps the vote. *)
becomeFollowerKeepsVote(r, term, lead, rnd) ==
    resetRandomizedElectionTimeout(
        [r EXCEPT !.State = StateFollower, !.Term = term, !.Lead = lead], rnd)

becomeFollower(r, term, lead, rnd) ==
    resetRandomizedElectionTimeout(
        [r EXCEPT !.State = StateFollower, !.Term = term, !.Lead = lead,
                  !.Vote = None], rnd)

becomeCandidate(r, rnd) ==
    resetRandomizedElectionTimeout(
        [r EXCEPT !.State = StateCandidate, !.Term = r.Term + 1,
                  !.Lead = None, !.Vote = r.id,
                  !.votes = (r.id :> TRUE)], rnd)

newRaft(id, peers, storage, hardSt, applied, rnd) ==
    LET l0 == newLog(storage)
        r0 == [id |-> id, Term |-> 0, Vote |-> None, RaftLog |-> l0,
               Prs |-> [p \in peers |-> [Match |-> 0, Next |-> 0]],
               State |-> StateFollower, votes |-> <<>>, msgs |-> {},
               Lead |-> None,
               heartbeatTimeout |-> HeartbeatTick,
               electionTimeout |-> ElectionTick,
               heartbeatElapsed |-> 0, electionElapsed |-> 0,
               randomizedElectionTimeout |-> 0, fatal |-> FALSE]
        r1 == becomeFollower(r0, 0, None, rnd)
        r2 == [r1 EXCEPT !.Term = hardSt.Term, !.Vote = hardSt.Vote,
                         !.RaftLog.committed = hardSt.Commit]
    IN IF applied > 0 THEN [r2 EXCEPT !.RaftLog.applied = applied] ELSE r2

sendAppend(r, to) ==
    IF to \notin DOMAIN r.Prs \/ r.Prs[to].Next = 0
    THEN Panic(r)  \* nil Progress; or Next - 1 wraps to 2^64 - 1, past any log
    ELSE LET prevLogIndex == r.Prs[to].Next - 1
             t == LogTerm(r.RaftLog, prevLogIndex)
         IN IF t.err # ErrNil
            THEN IF t.err = ErrCompacted THEN r ELSE Panic(r)
            ELSE IF ~SliceIndexOk(r.RaftLog, prevLogIndex + 1) THEN Panic(r)
            ELSE LET start == toSliceIndex(r.RaftLog, prevLogIndex + 1)
                     n == Len(r.RaftLog.entries)
                     ents == SubSeq(r.RaftLog.entries, start + 1, n)
                 IN send(r, Message(MsgAppend, to, r.id, r.Term, t.term,
                                    prevLogIndex, ents,
                                    r.RaftLog.committed, FALSE))

sendAppendResponse(r, to, logTerm, index, reject) ==
    send(r, Message(MsgAppendResponse, to, r.id, r.Term, logTerm, index,
                    <<>>, 0, reject))

sendHeartbeat(r, to) ==
    send(r, Message(MsgHeartbeat, to, r.id, r.Term, 0, 0, <<>>, 0, FALSE))

sendHeartbeatResponse(r, to, reject) ==
    send(r, Message(MsgHeartbeatResponse, to, r.id, r.Term, 0, 0, <<>>, 0,
                    reject))

sendRequestVote(r, to, index, term) ==
    send(r, Message(MsgRequestVote, to, r.id, r.Term, term, index, <<>>, 0,
                    FALSE))

sendRequestVoteResponse(r, to, reject) ==
    send(r, Message(MsgRequestVoteResponse, to, r.id, r.Term, 0, 0, <<>>, 0,
                    reject))

(* The loops over r.Prs: Go ranges over the map in an unspecified order,    *)
(* and the sends to different peers do not depend on one another.           *)
RECURSIVE ForEachPeer(_, _, _)
ForEachPeer(r, peers, bcast) ==
    IF peers = {} THEN r
    ELSE LET p == CHOOSE x \in peers : TRUE
             r1 == CASE bcast = MsgHeartbeat -> sendHeartbeat(r, p)
                      [] bcast = MsgAppend -> sendAppend(r, p)
                      [] bcast = MsgRequestVote ->
                            LET lastIndex == LastIndex(r.RaftLog)
                            IN sendRequestVote(r, p, lastIndex,
                                   LogTerm(r.RaftLog, lastIndex).term)
         IN ForEachPeer(r1, peers \ {p}, bcast)

bcastHeartbeat(r) == ForEachPeer(r, DOMAIN r.Prs \ {r.id}, MsgHeartbeat)

bcastAppend(r) == ForEachPeer(r, DOMAIN r.Prs \ {r.id}, MsgAppend)

becomeLeader(r) ==
    LET lastIndex == LastIndex(r.RaftLog)
        r1 == [r EXCEPT
                 !.State = StateLeader, !.Lead = r.id, !.heartbeatElapsed = 0,
                 !.Prs = [p \in DOMAIN r.Prs |->
                            IF p = r.id
                            THEN [Match |-> lastIndex + 1, Next |-> lastIndex + 2]
                            ELSE [r.Prs[p] EXCEPT !.Next = lastIndex + 1]],
                 !.RaftLog.entries =
                     Append(@, Entry(r.Term, lastIndex + 1, 0))]
        r2 == bcastAppend(r1)
    IN IF Cardinality(DOMAIN r.Prs) = 1
       THEN IF r.id \in DOMAIN r.Prs
            THEN [r2 EXCEPT !.RaftLog.committed = r2.Prs[r.id].Match]
            ELSE Panic(r2)
       ELSE r2

doElection(r, rnd) ==
    LET r1 == [becomeCandidate(r, rnd) EXCEPT !.heartbeatElapsed = 0]
    IN IF Cardinality(DOMAIN r.Prs) = 1
       THEN becomeLeader(r1)
       ELSE ForEachPeer(r1, DOMAIN r.Prs \ {r.id}, MsgRequestVote)

handleRequestVote(r, m) ==
    IF r.Term > m.Term
    THEN sendRequestVoteResponse(r, m.From, TRUE)
    ELSE IF (r.Vote = None \/ r.Vote = m.From)
            /\ isUpToDate(r.RaftLog, m.Index, m.LogTerm)
         THEN sendRequestVoteResponse(
                  [r EXCEPT !.Vote = m.From, !.electionElapsed = 0],
                  m.From, FALSE)
         ELSE sendRequestVoteResponse(r, m.From, TRUE)

handleRequestVoteResponse(r, m, rnd) ==
    LET votes == (m.From :> ~m.Reject) @@ r.votes
        r1 == [r EXCEPT !.votes = votes]
        granted == Cardinality({p \in DOMAIN votes : votes[p]})
        quorum == Cardinality(DOMAIN r.Prs) \div 2
    IN IF granted > quorum THEN becomeLeader(r1)
       ELSE IF Cardinality(DOMAIN votes) - granted > quorum
            THEN becomeFollower(r1, r1.Term, None, rnd)
            ELSE r1

(* A variant of the loop below that appends the entries of the message      *)
(* without comparing them with the entries the log holds.                   *)
mergeEntriesUnchecked(r, ents, i) ==
    [r EXCEPT !.RaftLog.entries = @ \o SubSeq(ents, i, Len(ents))]

(* The loop of handleAppendEntries over m.Entries, from position i on.      *)
RECURSIVE mergeEntries(_, _, _)
mergeEntries(r, ents, i) ==
    IF i > Len(ents) THEN r
    ELSE LET ent == ents[i]
             l == r.RaftLog
         IN IF ent.Index < FirstIndex(l)
            THEN mergeEntries(r, ents, i + 1)
            ELSE IF ent.Index <= LastIndex(l)
            THEN LET t == LogTerm(l, ent.Index)
                 IN IF t.err # ErrNil THEN Panic(r)
                    ELSE IF t.term # ent.Term
                    THEN LET idx == toSliceIndex(l, ent.Index)
                         IN IF idx >= Len(l.entries) THEN Panic(r)
                            ELSE mergeEntries(
                                [r EXCEPT
                                   !.RaftLog.entries =
                                       Append(SubSeq(l.entries, 1, idx), ent),
                                   !.RaftLog.stabled =
                                       min(l.stabled, ent.Index - 1)],
                                ents, i + 1)
                    ELSE mergeEntries(r, ents, i + 1)
            ELSE [r EXCEPT !.RaftLog.entries =
                               @ \o SubSeq(ents, i, Len(ents))]

handleAppendEntries(r, m) ==
    IF r.Term > m.Term
    THEN sendAppendResponse(r, m.From, None, None, TRUE)
    ELSE
    LET r1 == [r EXCEPT !.Lead = m.From, !.electionElapsed = 0]
        l == r1.RaftLog
        lastIndex == LastIndex(l)
    IN IF m.Index > lastIndex
       THEN sendAppendResponse(r1, m.From, None, lastIndex + 1, TRUE)
       ELSE
       LET t == IF m.Index >= FirstIndex(l)
                THEN LogTerm(l, m.Index)
                ELSE [term |-> m.LogTerm, err |-> ErrNil]
       IN IF t.err # ErrNil THEN Panic(r1)
          ELSE IF m.Index >= FirstIndex(l) /\ t.term # m.LogTerm
          THEN LET n == toSliceIndex(l, m.Index + 1)
                   f == [k \in 0..(n - 1) |->
                            l.entries[k + 1].Term = t.term]
                   nexti == toEntryIndex(l, Search(n, f))
               IN sendAppendResponse(r1, m.From, t.term, nexti, TRUE)
          ELSE
          LET r2 == mergeEntries(r1, m.Entries, 1)
              r3 == IF r2.RaftLog.committed < m.Commit
                    THEN [r2 EXCEPT !.RaftLog.committed =
                                       min(m.Commit, m.Index + Len(m.Entries))]
                    ELSE r2
          IN sendAppendResponse(r3, m.From, None, LastIndex(r3.RaftLog),
                                FALSE)

(* match[(len(match)-1)/2] of the sorted Match values.                      *)
SortedAt(prs, k) ==
    CHOOSE v \in {prs[p].Match : p \in DOMAIN prs} :
        /\ Cardinality({p \in DOMAIN prs : prs[p].Match < v}) <= k
        /\ Cardinality({p \in DOMAIN prs : prs[p].Match <= v}) > k

leaderCommit(r) ==
    LET n == SortedAt(r.Prs, (Cardinality(DOMAIN r.Prs) - 1) \div 2)
    IN IF n > r.RaftLog.committed
       THEN LET t == LogTerm(r.RaftLog, n)
            IN IF t.err # ErrNil THEN Panic(r)
               ELSE IF t.term = r.Term
               THEN bcastAppend([r EXCEPT !.RaftLog.committed = n])
               ELSE r
       ELSE r

handleAppendEntriesResponse(r, m) ==
    IF r.Term > m.Term THEN r
    ELSE IF m.Reject
    THEN IF m.Index = None THEN r
         ELSE LET ents == r.RaftLog.entries
                  f == [k \in 0..(Len(ents) - 1) |->
                           ents[k + 1].Term > m.LogTerm]
                  sliceIndex == Search(Len(ents), f)
                  rejectHint ==
                      IF m.LogTerm # None /\ sliceIndex > 0
                         /\ ents[sliceIndex].Term = m.LogTerm
                      THEN toEntryIndex(r.RaftLog, sliceIndex)
                      ELSE m.Index
              IN IF m.From \notin DOMAIN r.Prs THEN Panic(r)
                 ELSE sendAppend(
                          [r EXCEPT !.Prs[m.From].Next = rejectHint], m.From)
    ELSE IF m.From \notin DOMAIN r.Prs THEN Panic(r)
    ELSE IF m.Index > r.Prs[m.From].Match
    THEN leaderCommit([r EXCEPT !.Prs[m.From] =
                          [Match |-> m.Index, Next |-> m.Index + 1]])
    ELSE r

handleHeartbeat(r, m) ==
    IF r.Term > m.Term
    THEN sendHeartbeatResponse(r, m.From, TRUE)
    ELSE sendHeartbeatResponse(
             [r EXCEPT !.Lead = m.From, !.electionElapsed = 0], m.From, FALSE)

(* ents: the payloads of the proposed entries; Term and Index are stamped.  *)
RECURSIVE stampEntries(_, _, _, _)
stampEntries(ents, term, lastIndex, i) ==
    IF i > Len(ents) THEN <<>>
    ELSE <<Entry(term, lastIndex + (i - 1) + 1, ents[i].Data)>>
         \o stampEntries(ents, term, lastIndex, i + 1)

appendEntriesUncommitted(r, ents) ==
    LET lastIndex == LastIndex(r.RaftLog)
        r1 == [r EXCEPT !.RaftLog.entries =
                            @ \o stampEntries(ents, r.Term, lastIndex, 1)]
    IN IF r.id \notin DOMAIN r.Prs THEN Panic(r1)
       ELSE
       LET match == LastIndex(r1.RaftLog)
       IN bcastAppend([r1 EXCEPT !.Prs[r.id] =
                                [Match |-> match, Next |-> match + 1]])

appendEntries(r, ents) ==
    LET lastIndex == LastIndex(r.RaftLog)
        r1 == [r EXCEPT !.RaftLog.entries =
                            @ \o stampEntries(ents, r.Term, lastIndex, 1)]
    IN IF r.id \notin DOMAIN r.Prs THEN Panic(r1)
       ELSE
       LET match == LastIndex(r1.RaftLog)
           r2 == bcastAppend([r1 EXCEPT !.Prs[r.id] =
                                [Match |-> match, Next |-> match + 1]])
       IN IF Cardinality(DOMAIN r.Prs) = 1
          THEN [r2 EXCEPT !.RaftLog.committed = r2.Prs[r.id].Match]
          ELSE r2

stepFollower(r, m, rnd) ==
    CASE m.MsgType = MsgHup -> doElection(r, rnd)
      [] m.MsgType = MsgAppend -> handleAppendEntries(r, m)
      [] m.MsgType = MsgRequestVote -> handleRequestVote(r, m)
      [] m.MsgType = MsgHeartbeat -> handleHeartbeat(r, m)
      [] OTHER -> r

stepCandidate(r, m, rnd) ==
    CASE m.MsgType = MsgHup -> doElection(r, rnd)
      [] m.MsgType = MsgAppend ->
            handleAppendEntries(
                IF m.Term = r.Term
                THEN becomeFollower(r, m.Term, m.From, rnd) ELSE r, m)
      [] m.MsgType = MsgRequestVote -> handleRequestVote(r, m)
      [] m.MsgType = MsgRequestVoteResponse ->
            handleRequestVoteResponse(r, m, rnd)
      [] m.MsgType = MsgHeartbeat ->
            handleHeartbeat(
                IF m.Term = r.Term
                THEN becomeFollower(r, m.Term, m.From, rnd) ELSE r, m)
      [] OTHER -> r

stepLeader(r, m) ==
    CASE m.MsgType = MsgBeat -> bcastHeartbeat(r)
      [] m.MsgType = MsgPropose -> appendEntries(r, m.Entries)
      [] m.MsgType = MsgAppend -> handleAppendEntries(r, m)
      [] m.MsgType = MsgAppendResponse -> handleAppendEntriesResponse(r, m)
      [] m.MsgType = MsgRequestVote -> handleRequestVote(r, m)
      [] m.MsgType = MsgHeartbeat -> handleHeartbeat(r, m)
      [] m.MsgType = MsgHeartbeatResponse ->
            IF ~m.Reject THEN sendAppend(r, m.From) ELSE r
      [] OTHER -> r

(* A variant of Step without the test of the peer's membership. *)
StepOfNonMember(r, m, rnd) ==
    LET r1 == IF m.Term > r.Term
              THEN becomeFollower(r, m.Term, None, rnd) ELSE r
    IN CASE r1.State = StateFollower -> stepFollower(r1, m, rnd)
         [] r1.State = StateCandidate -> stepCandidate(r1, m, rnd)
         [] r1.State = StateLeader -> stepLeader(r1, m)

Step(r, m, rnd) ==
    IF r.id \notin DOMAIN r.Prs THEN r
    ELSE LET r1 == IF m.Term > r.Term
                   THEN becomeFollower(r, m.Term, None, rnd) ELSE r
         IN CASE r1.State = StateFollower -> stepFollower(r1, m, rnd)
              [] r1.State = StateCandidate -> stepCandidate(r1, m, rnd)
              [] r1.State = StateLeader -> stepLeader(r1, m)

(* The error Step returns: both of its return statements return nil, and   *)
(* it discards what stepFollower, stepCandidate and stepLeader return      *)
(* (nil as well).                                                           *)
StepError(r, m) ==
    IF r.id \notin DOMAIN r.Prs THEN ErrNil
    ELSE ErrNil

tickElection(r, rnd) ==
    LET r1 == [r EXCEPT !.electionElapsed = @ + 1]
    IN IF r1.electionElapsed >= r1.randomizedElectionTimeout
       THEN Step([r1 EXCEPT !.electionElapsed = 0], LocalMsg(MsgHup, <<>>), rnd)
       ELSE r1

tickHeartbeat(r, rnd) ==
    LET r1 == [r EXCEPT !.heartbeatElapsed = @ + 1]
    IN IF r1.heartbeatElapsed >= r1.heartbeatTimeout
       THEN Step([r1 EXCEPT !.heartbeatElapsed = 0], LocalMsg(MsgBeat, <<>>), rnd)
       ELSE r1

tick(r, rnd) ==
    CASE r.State = StateFollower -> tickElection(r, rnd)
      [] r.State = StateCandidate -> tickElection(r, rnd)
      [] r.State = StateLeader -> tickHeartbeat(r, rnd)

----------------------------------------------------------------------------
(* The cluster: the host's calls of Step and tick on each peer, and the     *)
(* network between the peers.                                               *)

Peers == DOMAIN raft

InFlight(rf) == UNION {rf[i].msgs : i \in DOMAIN rf}

Rand == 0..(ElectionTick - 1)

(* The proposals of at most n entries with payloads 1..d. *)
Proposals(n, d) ==
    UNION {[1..k -> {Entry(0, 0, x) : x \in 1..d}] : k \in 1..n}

(* The clusters explored: terms up to t, logs of up to l entries, up to n    *)
(* messages in flight.                                                       *)
Within(rf, t, l, n) ==
    /\ \A i \in DOMAIN rf :
          /\ rf[i].Term <= t
          /\ Len(rf[i].RaftLog.entries) <= l
    /\ Cardinality(InFlight(rf)) <= n

(* A call that ends in a fatal abort leaves the peer stopped, in the state  *)
(* it had before the call.                                                  *)
After(r, r2) == IF r2.fatal THEN Panic(r) ELSE r2

(* The history variables after a step from cluster rf to cluster rf2.       *)
NewlyElected(rf, rf2) ==
    {<<rf2[i].Term, i>> : i \in {j \in DOMAIN rf :
        rf[j].State # StateLeader /\ rf2[j].State = StateLeader}}

VotesGiven(rf, rf2) ==
    {<<i, rf2[i].Term, i>> : i \in {j \in DOMAIN rf :
        /\ rf2[j].State # StateFollower
        /\ rf2[j].Vote = j
        /\ rf2[j].Term # rf[j].Term}}
    \cup {<<m.From, m.Term, m.To>> : m \in {x \in InFlight(rf2) :
        x.MsgType = MsgRequestVoteResponse /\ ~x.Reject}}

NewlyCommitted(rf, rf2) ==
    UNION {{<<k, rf2[i].RaftLog.entries[k - rf2[i].RaftLog.first + 1].Term,
              rf2[i].Term>> :
            k \in {n \in (rf[i].RaftLog.committed + 1)..rf2[i].RaftLog.committed :
                     /\ n >= rf2[i].RaftLog.first
                     /\ n <= LastIndex(rf2[i].RaftLog)}} : i \in DOMAIN rf}

NewlyProposed(rf, rf2) ==
    UNION {{rf2[i].RaftLog.entries[k] :
            k \in {n \in (Len(rf[i].RaftLog.entries) + 1)..Len(rf2[i].RaftLog.entries) :
                     rf2[i].RaftLog.entries[n].Data # 0}} :
           i \in {j \in DOMAIN rf :
                     /\ rf[j].State = StateLeader
                     /\ rf2[j].State = StateLeader
                     /\ \A q \in DOMAIN rf : rf[q].Term <= rf[j].Term}}

(* What the network keeps of the messages of cluster rf when the links in  *)
(* down are down.                                                           *)
Lose(rf, down) ==
    [i \in DOMAIN rf |->
        [rf[i] EXCEPT !.msgs = {m \in @ : <<i, m.To>> \notin down}]]

Becomes(rf2) ==
    /\ raft' = Lose(rf2, cut)
    /\ elected' = elected \cup NewlyElected(raft, rf2)
    /\ voted' = voted \cup VotesGiven(raft, rf2)
    /\ everCommitted' = everCommitted \cup NewlyCommitted(raft, rf2)
    /\ proposed' = proposed \cup NewlyProposed(raft, rf2)
    /\ UNCHANGED cut

(* The host calls r.Step(m) with a local message.  R is the set the value  *)
(* of rand.Intn is drawn from.                                              *)
StepLocal(i, m, rnd) ==
    /\ ~raft[i].fatal
    /\ Becomes([raft EXCEPT ![i] = After(raft[i], Step(raft[i], m, rnd))])

Campaign(i, R) == \E rnd \in R : StepLocal(i, LocalMsg(MsgHup, <<>>), rnd)

Beat(i) ==
    /\ raft[i].State = StateLeader
    /\ StepLocal(i, LocalMsg(MsgBeat, <<>>), 0)

Propose(i, P) ==
    /\ raft[i].State = StateLeader
    /\ \E ents \in P : StepLocal(i, LocalMsg(MsgPropose, ents), 0)

(* The host steps MsgPropose on a peer of any role. *)
Submit(i, P) == \E ents \in P : StepLocal(i, LocalMsg(MsgPropose, ents), 0)

(* The host calls r.tick(). *)
Tick(i) ==
    /\ ~raft[i].fatal
    /\ \E rnd \in Rand :
          Becomes([raft EXCEPT ![i] = After(raft[i], tick(raft[i], rnd))])

(* The network hands message m, sent by peer i, to its receiver; with keep  *)
(* a copy of it stays in flight.                                            *)
Receive(i, m, keep, R) ==
    /\ m.To \in DOMAIN raft
    /\ ~raft[m.To].fatal
    /\ \E rnd \in R :
          LET rf1 == IF keep THEN raft
                     ELSE [raft EXCEPT ![i].msgs = @ \ {m}]
          IN Becomes([rf1 EXCEPT
                        ![m.To] = After(raft[m.To], Step(raft[m.To], m, rnd))])

Deliver(R) == \E i \in Peers : \E m \in raft[i].msgs : Receive(i, m, FALSE, R)

Duplicate(R) == \E i \in Peers : \E m \in raft[i].msgs : Receive(i, m, TRUE, R)

(* The network loses a message. *)
Drop ==
    \E i \in Peers : \E m \in raft[i].msgs :
        Becomes([raft EXCEPT ![i].msgs = @ \ {m}])

(* The host compacts the storage of peer i up to a committed index the     *)
(* storage holds.                                                           *)
CompactStorage(i) ==
    /\ ~raft[i].fatal
    /\ \E k \in (StorageFirstIndex(raft[i].RaftLog.storage))
                   ..min(StorageLastIndex(raft[i].RaftLog.storage),
                         raft[i].RaftLog.committed) :
          Becomes([raft EXCEPT ![i].RaftLog.storage = StorageCompact(@, k)])

(* The host calls r.RaftLog.maybeCompact(). *)
MaybeCompact(i) ==
    /\ ~raft[i].fatal
    /\ Becomes([raft EXCEPT ![i] =
                   IF CompactInRange(@.RaftLog)
                   THEN [@ EXCEPT !.RaftLog = maybeCompact(@)]
                   ELSE Panic(@)])

(* The host has applied the committed entries up to an index and records   *)
(* it in the log.                                                           *)
AdvanceApplied(i) ==
    /\ ~raft[i].fatal
    /\ \E k \in (raft[i].RaftLog.applied + 1)..raft[i].RaftLog.committed :
          Becomes([raft EXCEPT ![i].RaftLog.applied = k])

NoHardState == [Term |-> 0, Vote |-> None, Commit |-> 0]

(* A cluster of freshly constructed peers, each configured with all of      *)
(* them, on a network whose links in down are down.                         *)
Fresh(peers, R, down) ==
    /\ raft \in [peers -> UNION {{newRaft(i, peers, EmptyStorage, NoHardState,
                                         0, rnd) : rnd \in R} : i \in peers}]
    /\ \A i \in peers : raft[i].id = i
    /\ elected = {}
    /\ voted = {}
    /\ everCommitted = {}
    /\ proposed = {}
    /\ cut = down

(* Three peers in a line: peers 1 and 2 reach peer 3 and not each other.    *)
(* No tick: the host starts elections by stepping MsgHup itself, at any     *)
(* time, which covers every election tick can start; the timer fields are   *)
(* then never read, and rand.Intn is fixed to 0.  Peer 3 never campaigns.   *)
NoJitter == {0}

Line == {<<1, 2>>, <<2, 1>>}

InScope == Within(raft, MaxTerm, MaxLogLen, MaxMsgs)

Init == Fresh({1, 2, 3}, NoJitter, Line)

Next ==
    \/ \E i \in {1, 2} : Campaign(i, NoJitter) /\ InScope'
    \/ \E i \in Peers : Propose(i, Proposals(MaxPropose, MaxData)) /\ InScope'
    \/ Deliver(NoJitter) /\ InScope'

Spec == Init /\ [][Next]_vars

(* The same three peers, with a host that holds MsgHup back while a vote   *)
(* request of the peer or a vote response to it is in flight.               *)
Settled(i) ==
    \A m \in InFlight(raft) :
        /\ ~(m.To = i /\ m.MsgType = MsgRequestVoteResponse)
        /\ ~(m.From = i /\ m.MsgType = MsgRequestVote)

CalmNext ==
    \/ \E i \in {1, 2} : Settled(i) /\ Campaign(i, NoJitter) /\ InScope'
    \/ \E i \in Peers : Propose(i, Proposals(MaxPropose, MaxData)) /\ InScope'
    \/ Deliver(NoJitter) /\ InScope'

CalmSpec == Init /\ [][CalmNext]_vars

(* Two peers that reach each other, on a network that delays, reorders,    *)
(* duplicates and loses messages.                                           *)
PairInit == Fresh({1, 2}, NoJitter, {})

PairNext ==
    \/ \E i \in Peers : Campaign(i, NoJitter) /\ InScope'
    \/ Deliver(NoJitter) /\ InScope'
    \/ Duplicate(NoJitter) /\ InScope'
    \/ Drop /\ InScope'

PairSpec == PairInit /\ [][PairNext]_vars

(* Two peers whose links go down and come back: while they are down the     *)
(* messages in flight and the messages sent are lost.  The host also steps  *)
(* MsgBeat and MsgPropose.                                                  *)
Both == {<<1, 2>>, <<2, 1>>}

Partition ==
    /\ cut = {}
    /\ cut' = Both
    /\ raft' = Lose(raft, Both)
    /\ UNCHANGED <<elected, voted, everCommitted, proposed>>

Heal ==
    /\ cut # {}
    /\ cut' = {}
    /\ UNCHANGED <<raft, elected, voted, everCommitted, proposed>>

PartitionNext ==
    \/ \E i \in Peers : Campaign(i, NoJitter) /\ InScope'
    \/ \E i \in Peers : Beat(i) /\ InScope'
    \/ \E i \in Peers : Propose(i, Proposals(MaxPropose, MaxData)) /\ InScope'
    \/ Deliver(NoJitter) /\ InScope'
    \/ Partition
    \/ Heal

PartitionSpec == PairInit /\ [][PartitionNext]_vars

(* A cluster whose peer set is the peer itself, started or restarted: the   *)
(* storage holds up to SoloPersisted entries of non-decreasing terms, and   *)
(* the hard state a term not below theirs and a commit index within them.   *)
(* The host calls tick, and steps MsgHup and MsgPropose.                    *)
PersistedLogs ==
    UNION {{[k \in 1..n |-> Entry(f[k], k, 0)] :
            f \in {g \in [1..n -> 1..(MaxTerm - 1)] :
                     \A a \in 1..n : \A b \in a..n : g[a] <= g[b]}} :
           n \in 0..SoloPersisted}

HardStates(ents) ==
    [Term : (IF Len(ents) = 0 THEN 0 ELSE ents[Len(ents)].Term)..(MaxTerm - 1),
     Vote : {None, 1},
     Commit : 0..Len(ents)]

SoloScope == Within(raft, MaxTerm, SoloLogLen, 0)

SoloInit ==
    /\ \E ents \in PersistedLogs : \E hardSt \in HardStates(ents) :
       \E rnd \in Rand :
          raft = [i \in {1} |->
                    newRaft(1, {1}, [snapIndex |-> 0, snapTerm |-> 0,
                                     ents |-> ents], hardSt, 0, rnd)]
    /\ elected = {}
    /\ voted = {}
    /\ everCommitted = {}
    /\ proposed = {}
    /\ cut = {}

SoloNext ==
    \/ Tick(1) /\ SoloScope'
    \/ Campaign(1, Rand) /\ SoloScope'
    \/ Propose(1, Proposals(SoloPropose, MaxData)) /\ SoloScope'

SoloSpec == SoloInit /\ [][SoloNext]_vars

(* Three peers on a network with one slow link: what peer 3 sends to peer 1 *)
(* is delivered at any time, every other message before the host's next     *)
(* MsgHup or MsgPropose, and what peer 2 sends to peer 1 is lost.  Peer 3    *)
(* never campaigns and only peer 2 is given proposals.                      *)
Slow == {<<3, 1>>}

Quiet == \A i \in Peers : \A m \in raft[i].msgs : <<i, m.To>> \in Slow

SlowScope == Within(raft, SlowMaxTerm, SlowLogLen, SlowMsgs)

SlowInit == Fresh({1, 2, 3}, NoJitter, {<<2, 1>>})

SlowNext ==
    \/ \E i \in {1, 2} : Quiet /\ Campaign(i, NoJitter) /\ SlowScope'
    \/ Quiet /\ Propose(2, Proposals(SlowPropose, MaxData)) /\ SlowScope'
    \/ Deliver(NoJitter) /\ SlowScope'

SlowSpec == SlowInit /\ [][SlowNext]_vars

(* Two peers that reach each other and whose elections are started by the  *)
(* election timer alone: the host calls tick, steps MsgPropose on a peer    *)
(* of any role, and the network delivers every message, in any order.       *)
TimerScope == Within(raft, TimerMaxTerm, MaxLogLen, MaxMsgs)

TimerNext ==
    \/ \E i \in Peers : Tick(i) /\ TimerScope'
    \/ \E i \in Peers : Submit(i, Proposals(MaxPropose, MaxData)) /\ TimerScope'
    \/ Deliver(Rand) /\ TimerScope'

TimerSpec == Fresh({1, 2}, Rand, {}) /\ [][TimerNext]_vars

(* Four peers that all reach one another; peers 1 and 2 campaign, once     *)
(* each, and the network delivers every message, in any order.              *)
FourScope == Within(raft, FourMaxTerm, FourLogLen, FourMsgs)

FourNext ==
    \/ \E i \in {1, 2} : Campaign(i, NoJitter) /\ FourScope'
    \/ Deliver(NoJitter) /\ FourScope'

FourSpec == Fresh({1, 2, 3, 4}, NoJitter, {}) /\ [][FourNext]_vars

(* Three peers of which peer 3 was removed: peers 1 and 2 are configured   *)
(* with all three, peer 3, started or restarted, with peers 1 and 2 only.   *)
(* Peers 1 and 2 still send to peer 3, and the host of peer 3 still calls   *)
(* tick and steps MsgHup, MsgBeat and MsgPropose on it.                     *)
Removed == 3

RemovedScope == Within(raft, RemovedMaxTerm, MaxLogLen, RemovedMsgs)

RemovedInit ==
    /\ \E ents \in {l \in PersistedLogs : Len(l) <= RemovedPersisted} :
       \E hardSt \in HardStates(ents) : \E rnd \in NoJitter :
          raft = [i \in {1, 2, Removed} |->
                    IF i = Removed
                    THEN newRaft(i, {1, 2}, [snapIndex |-> 0, snapTerm |-> 0,
                                            ents |-> ents], hardSt, 0, rnd)
                    ELSE newRaft(i, {1, 2, Removed}, EmptyStorage,
                                 NoHardState, 0, 0)]
    /\ elected = {}
    /\ voted = {}
    /\ everCommitted = {}
    /\ proposed = {}
    /\ cut = {}

RemovedNext ==
    \/ Campaign(1, NoJitter) /\ RemovedScope'
    \/ Beat(1) /\ RemovedScope'
    \/ Propose(1, Proposals(MaxPropose, MaxData)) /\ RemovedScope'
    \/ Deliver(NoJitter) /\ RemovedScope'
    \/ Tick(Removed)
    \/ Campaign(Removed, Rand)
    \/ StepLocal(Removed, LocalMsg(MsgBeat, <<>>), 0)
    \/ Submit(Removed, Proposals(MaxPropose, MaxData))

RemovedSpec == RemovedInit /\ [][RemovedNext]_vars

(* A single peer, started or restarted as above, whose host also compacts  *)
(* the storage, calls maybeCompact and advances applied.                    *)
CompactNext ==
    \/ Campaign(1, NoJitter) /\ SoloScope'
    \/ Propose(1, Proposals(MaxPropose, MaxData)) /\ SoloScope'
    \/ AdvanceApplied(1)
    \/ CompactStorage(1)
    \/ MaybeCompact(1)

CompactSpec == SoloInit /\ [][CompactNext]_vars

----------------------------------------------------------------------------
(* The properties. *)

EntryAt(r, k) ==
    IF k >= r.RaftLog.first /\ k - r.RaftLog.first < Len(r.RaftLog.entries)
    THEN r.RaftLog.entries[k - r.RaftLog.first + 1]
    ELSE Entry(0, 0, 0)

(* C1: election safety: for every term, at most one peer ever becomes       *)
(* Leader in that term.                                                     *)
ElectionSafety ==
    \A e1 \in elected : \A e2 \in elected : e1[1] = e2[1] => e1[2] = e2[2]

(* C2: leader completeness: a peer that becomes Leader in a term has, at    *)
(* that moment, every entry <<index, term>> that a peer had committed       *)
(* before, at a lower term, and keeps it as long as it stays Leader.        *)
LeaderCompleteness ==
    [][\A i \in Peers : \A c \in everCommitted :
          (raft'[i].State = StateLeader /\ c[3] < raft'[i].Term)
              => ( (raft[i].State # StateLeader
                       \/ EntryAt(raft[i], c[1]).Term = c[2])
                    => EntryAt(raft'[i], c[1]).Term = c[2] )]_vars

(* C3: a committed entry is never overwritten: no step of a peer changes    *)
(* the term of an entry at or below the index the peer has committed, or    *)
(* removes such an entry, or lowers committed.                              *)
CommittedNeverOverwritten ==
    [][\A i \in Peers :
          /\ \A k \in 1..raft[i].RaftLog.committed :
                k <= LastIndex(raft[i].RaftLog)
                   => /\ k <= LastIndex(raft'[i].RaftLog)
                      /\ EntryAt(raft'[i], k).Term = EntryAt(raft[i], k).Term
          /\ raft'[i].RaftLog.committed >= raft[i].RaftLog.committed]_vars

(* C5: monotonic commit: no step lowers committed on any peer.              *)
MonotonicCommit ==
    [][\A i \in Peers :
          raft'[i].RaftLog.committed >= raft[i].RaftLog.committed]_vars

(* C6: on every peer applied <= committed <= LastIndex(), and the entries   *)
(* in memory are contiguous from first.                                     *)
LogBounds ==
    \A i \in Peers :
        /\ raft[i].RaftLog.applied <= raft[i].RaftLog.committed
        /\ raft[i].RaftLog.committed <= LastIndex(raft[i].RaftLog)
        /\ \A k \in 1..Len(raft[i].RaftLog.entries) :
              raft[i].RaftLog.entries[k].Index = raft[i].RaftLog.first + k - 1

(* C4: log matching: if the logs of two peers hold entries of the same term *)
(* at an index, the two logs hold identical entries at every lower index.   *)
LogMatching ==
    \A p \in Peers : \A q \in Peers :
        \A i \in 1..min(LastIndex(raft[p].RaftLog), LastIndex(raft[q].RaftLog)) :
            EntryAt(raft[p], i).Term = EntryAt(raft[q], i).Term
                => \A j \in 1..(i - 1) : EntryAt(raft[p], j) = EntryAt(raft[q], j)

(* C7: a peer votes at most once per term: the votes a peer gave in a term  *)
(* (its self-vote on becoming Candidate, every MsgRequestVoteResponse it    *)
(* sent that does not reject) all name the same candidate.                  *)
VoteOncePerTerm ==
    \A v1 \in voted : \A v2 \in voted :
        (v1[1] = v2[1] /\ v1[2] = v2[2]) => v1[3] = v2[3]

(* C8: a step in which a Leader raises committed leaves committed at an     *)
(* index whose entry has the Leader's term.                                 *)
CommitOnlyCurrentTerm ==
    [][\A i \in Peers :
          (/\ raft[i].State = StateLeader
           /\ raft'[i].State = StateLeader
           /\ raft'[i].RaftLog.committed > raft[i].RaftLog.committed)
              => EntryAt(raft'[i], raft'[i].RaftLog.committed).Term
                     = raft'[i].Term]_vars

(* C10, first half: in a cluster of two peers, while the links are down no  *)
(* peer raises committed and no peer becomes Leader.                        *)
PartitionHaltsCommit ==
    [][cut # {} =>
          \A i \in Peers :
              /\ raft'[i].RaftLog.committed <= raft[i].RaftLog.committed
              /\ raft'[i].State = StateLeader => raft[i].State = StateLeader]_vars

(* C10, second half: an entry proposed at the leader is eventually          *)
(* committed on both peers, so the cluster always holds a copy of it, in a  *)
(* log or in a message in flight.                                           *)
ProposedEntryKept ==
    \A e \in proposed :
        \/ \E j \in Peers : EntryAt(raft[j], e.Index) = e
        \/ \E m \in InFlight(raft) : \E n \in 1..Len(m.Entries) : m.Entries[n] = e

(* C9: in a cluster whose peer set is the peer itself, one Step(MsgPropose) *)
(* with k >= 1 entries on the Leader leaves committed at the index of the   *)
(* last appended entry, the old last index plus k, and one Step(MsgHup)     *)
(* leaves the peer Leader with its no-op entry committed.                   *)
SoloCommits ==
    [][\A i \in Peers :
          DOMAIN raft[i].Prs = {i} =>
             /\ \A ents \in Proposals(SoloPropose, MaxData) :
                   (/\ raft[i].State = StateLeader
                    /\ StepLocal(i, LocalMsg(MsgPropose, ents), 0))
                      => /\ raft'[i].RaftLog.committed
                               = LastIndex(raft[i].RaftLog) + Len(ents)
                         /\ LastIndex(raft'[i].RaftLog)
                               = raft'[i].RaftLog.committed
                         /\ \A k \in 1..Len(ents) :
                               EntryAt(raft'[i], LastIndex(raft[i].RaftLog) + k)
                                 = Entry(raft[i].Term,
                                         LastIndex(raft[i].RaftLog) + k,
                                         ents[k].Data)
             /\ (/\ raft[i].State # StateLeader
                 /\ Campaign(i, Rand))
                   => /\ raft'[i].State = StateLeader
                      /\ raft'[i].Term = raft[i].Term + 1
                      /\ raft'[i].RaftLog.committed
                            = LastIndex(raft[i].RaftLog) + 1
                      /\ EntryAt(raft'[i], raft'[i].RaftLog.committed)
                            = Entry(raft'[i].Term,
                                    LastIndex(raft[i].RaftLog) + 1, 0)]_vars

(* A single peer, restarted with an entry it had not committed, was made    *)
(* Leader by MsgHup and has committed two proposed entries.                 *)
SoloCommitted ==
    \E i \in Peers :
        /\ DOMAIN raft[i].Prs = {i}
        /\ raft[i].State = StateLeader
        /\ Len(raft[i].RaftLog.storage.ents) > 0
        /\ <<raft[i].Term, i>> \in elected
        /\ Cardinality(proposed) = 2
        /\ raft[i].RaftLog.committed = LastIndex(raft[i].RaftLog)
        /\ EntryAt(raft[i], raft[i].RaftLog.committed).Data # 0

(* C11: in every state a Step(MsgPropose) on a peer that is Follower or     *)
(* Candidate returns ErrProposalDropped to the caller and appends nothing   *)
(* to the log.                                                              *)
ProposalDropped ==
    \A i \in Peers : \A ents \in Proposals(MaxPropose, MaxData) :
        raft[i].State # StateLeader
            => LET m == LocalMsg(MsgPropose, ents)
               IN /\ StepError(raft[i], m) = ErrProposalDropped
                  /\ Step(raft[i], m, 0).RaftLog.entries
                        = raft[i].RaftLog.entries

(* C17: when a peer is handed a message of a term above its own, its       *)
(* election timer is reset: electionElapsed = 0 when Step returns.          *)
StepDownResetsTimer ==
    [][\A i \in Peers : \A m \in raft[i].msgs :
          (/\ m.To \in Peers
           /\ m.Term > raft[m.To].Term
           /\ Receive(i, m, FALSE, Rand))
              => raft'[m.To].electionElapsed = 0]_vars

(* What C12 lists of a peer: role, term, vote, leader id, log, committed    *)
(* index, vote tally and per-peer progress.                                 *)
Core(r) ==
    <<r.State, r.Term, r.Vote, r.Lead, r.RaftLog.entries,
      r.RaftLog.committed, r.votes, r.Prs>>

(* C12: stale messages are discarded: a Step of a peer-to-peer message m    *)
(* with 0 < m.Term < the receiver's Term leaves the receiver's role, term,  *)
(* vote, leader id, log, committed index, vote tally and progress as they   *)
(* were.                                                                    *)
StaleDiscarded ==
    [][\A i \in Peers : \A m \in raft[i].msgs :
          (/\ m.To \in Peers
           /\ 0 < m.Term
           /\ m.Term < raft[m.To].Term
           /\ \E keep \in BOOLEAN : Receive(i, m, keep, NoJitter))
              => Core(raft'[m.To]) = Core(raft[m.To])]_vars

(* The messages a Step of m adds to the outbound buffer of r. *)
Response(r, m) == Step([r EXCEPT !.msgs = {}], m, 0).msgs

(* r accepts the MsgAppend m: it answers with a MsgAppendResponse that      *)
(* does not reject.                                                         *)
Accepts(r, m) ==
    /\ m.MsgType = MsgAppend
    /\ \E x \in Response(r, m) : x.MsgType = MsgAppendResponse /\ ~x.Reject

(* C13: idempotence of append: when a Follower has stepped a MsgAppend m    *)
(* that it accepts, stepping m again leaves entries, committed, stabled,    *)
(* term, vote and leader id as the first Step left them, and answers with   *)
(* an accept response of the same index.                                    *)
AppendIdempotent ==
    [][\A i \in Peers : \A m \in raft[i].msgs :
          (/\ m.To \in Peers
           /\ raft[m.To].State = StateFollower
           /\ Accepts(raft[m.To], m)
           /\ \E keep \in BOOLEAN : Receive(i, m, keep, NoJitter))
              => LET r1 == raft'[m.To]
                     r2 == Step(r1, m, 0)
                 IN /\ r2.RaftLog.entries = r1.RaftLog.entries
                    /\ r2.RaftLog.committed = r1.RaftLog.committed
                    /\ r2.RaftLog.stabled = r1.RaftLog.stabled
                    /\ r2.Term = r1.Term
                    /\ r2.Vote = r1.Vote
                    /\ r2.Lead = r1.Lead
                    /\ ~r2.fatal
                    /\ Response(r1, m) # {}
                    /\ \A x \in Response(r1, m) :
                          /\ x.MsgType = MsgAppendResponse
                          /\ ~x.Reject
                          /\ \E y \in Response(raft[m.To], m) :
                                x.Index = y.Index]_vars

(* A Follower has accepted a MsgAppend that carries entries, holds them,    *)
(* and both the message, to be stepped again, and the accept response are   *)
(* in flight.                                                               *)
AppendSteppedOnce ==
    \E m \in InFlight(raft) :
        /\ m.MsgType = MsgAppend
        /\ Len(m.Entries) > 0
        /\ m.Index > 0
        /\ raft[m.To].State = StateFollower
        /\ raft[m.To].Lead = m.From
        /\ \A k \in 1..Len(m.Entries) :
              EntryAt(raft[m.To], m.Index + k) = m.Entries[k]
        /\ \E x \in raft[m.To].msgs :
              /\ x.MsgType = MsgAppendResponse
              /\ ~x.Reject
              /\ x.Term = m.Term
              /\ x.Index = m.Index + Len(m.Entries)

(* r grants the MsgRequestVote m: it answers with a MsgRequestVoteResponse  *)
(* that does not reject.                                                    *)
Grants(r, m) ==
    /\ m.MsgType = MsgRequestVote
    /\ \E x \in Response(r, m) :
          x.MsgType = MsgRequestVoteResponse /\ ~x.Reject

(* C14: higher-term demotion: after a Step of a message m with m.Term above *)
(* the peer's Term, whatever its role, the peer is Follower with Term =      *)
(* m.Term, its Vote is m.From if m is a MsgRequestVote it granted and None  *)
(* otherwise, and its Lead is m.From if m is a MsgAppend or a MsgHeartbeat  *)
(* and None otherwise.                                                      *)
HigherTermDemotes ==
    [][\A i \in Peers : \A m \in raft[i].msgs :
          (/\ m.To \in Peers
           /\ m.Term > raft[m.To].Term
           /\ \E keep \in BOOLEAN : Receive(i, m, keep, NoJitter))
              => LET r == raft'[m.To]
                 IN /\ r.State = StateFollower
                    /\ r.Term = m.Term
                    /\ r.Vote = (IF Grants(raft[m.To], m) THEN m.From ELSE None)
                    /\ r.Lead = (IF m.MsgType \in {MsgAppend, MsgHeartbeat}
                                 THEN m.From ELSE None)]_vars

(* A peer that was Leader is Follower at a higher term, has no vote and     *)
(* knows the Leader of that term.                                           *)
LeaderDemoted ==
    \E i \in Peers : \E e \in elected :
        /\ e[2] = i
        /\ raft[i].State = StateFollower
        /\ raft[i].Term > e[1]
        /\ raft[i].Vote = None
        /\ raft[i].Lead \in Peers \ {i}
        /\ <<raft[i].Term, raft[i].Lead>> \in elected

(* C15: in every state in which a peer is Leader, Match(p) < Next(p) for    *)
(* every peer p of its progress map.                                        *)
MatchBelowNext ==
    \A i \in Peers :
        raft[i].State = StateLeader
            => \A p \in DOMAIN raft[i].Prs :
                  raft[i].Prs[p].Match < raft[i].Prs[p].Next

(* C16: progress is reset on every transition into Leader: right after a    *)
(* step in which a peer becomes Leader, for every other peer p Match(p) = 0 *)
(* and Next(p) is the last index before the no-op entry plus one.           *)
ProgressReset ==
    [][\A i \in Peers :
          (raft[i].State # StateLeader /\ raft'[i].State = StateLeader)
              => \A p \in DOMAIN raft'[i].Prs \ {i} :
                    /\ raft'[i].Prs[p].Match = 0
                    /\ raft'[i].Prs[p].Next = LastIndex(raft[i].RaftLog) + 1]_vars

(* The tally of r holds an answer of every peer: its own vote, one more     *)
(* grant, and rejections from the rest.                                     *)
SplitTally(r) ==
    /\ DOMAIN r.votes = DOMAIN r.Prs
    /\ r.votes[r.id]
    /\ Cardinality({p \in DOMAIN r.votes : r.votes[p]}) = 2

(* C18: split-vote recovery: in a cluster of four peers, two peers that     *)
(* campaigned in the same term and have each processed their own vote, one  *)
(* grant and the rejections of the rest are both Follower at that term.     *)
SplitVoteRecovery ==
    \A a \in Peers : \A b \in Peers \ {a} :
        (/\ Cardinality(Peers) = 4
         /\ raft[a].Term = raft[b].Term
         /\ SplitTally(raft[a])
         /\ SplitTally(raft[b]))
            => /\ raft[a].State = StateFollower
               /\ raft[b].State = StateFollower

(* C20: a peer whose own id is not in its peer set ignores all messages:    *)
(* no step, of a message from another peer or of the MsgHup that tick       *)
(* steps, changes its role, term, vote, leader id, log, committed index or  *)
(* outbound buffer.                                                         *)
RemovedPeerIgnores ==
    [][\A i \in Peers :
          i \notin DOMAIN raft[i].Prs
              => /\ raft'[i].State = raft[i].State
                 /\ raft'[i].Term = raft[i].Term
                 /\ raft'[i].Vote = raft[i].Vote
                 /\ raft'[i].Lead = raft[i].Lead
                 /\ raft'[i].RaftLog = raft[i].RaftLog
                 /\ raft'[i].msgs = raft[i].msgs
                 /\ ~raft'[i].fatal]_vars

(* The removed peer, restarted with a term, a vote and a committed entry,   *)
(* has been ticked; peer 1 is Leader and has committed, and every message   *)
(* it sent to the removed peer (a vote request and appends) was delivered.  *)
RemovedPeerStepped ==
    /\ Removed \in Peers
    /\ Removed \notin DOMAIN raft[Removed].Prs
    /\ raft[Removed].electionElapsed > 0
    /\ raft[Removed].Term > 0
    /\ raft[Removed].Vote # None
    /\ raft[Removed].RaftLog.committed > 0
    /\ raft[1].State = StateLeader
    /\ raft[1].RaftLog.committed > 0
    /\ \A m \in InFlight(raft) : m.To # Removed

(* Follower f has the log of Leader i, and i has recorded it. *)
Healed(i, f) ==
    /\ raft[f].RaftLog.entries = raft[i].RaftLog.entries
    /\ raft[i].Prs[f].Match = LastIndex(raft[i].RaftLog)

(* C19, what the claim promises at the end of the exchange: when a Leader   *)
(* and a Follower of its term are joined by links that lose nothing and     *)
(* every message sent has been delivered, the Follower's log equals the     *)
(* Leader's and Match(F) is the Leader's last index.                        *)
RetryHeals ==
    \A i \in Peers : \A f \in Peers \ {i} :
        (/\ raft[i].State = StateLeader
         /\ ~raft[i].fatal
         /\ raft[f].State = StateFollower
         /\ raft[f].Term = raft[i].Term
         /\ <<i, f>> \notin cut
         /\ <<f, i>> \notin cut
         /\ InFlight(raft) = {})
            => Healed(i, f)

(* C21: after maybeCompact has run on a log whose storage's FirstIndex had  *)
(* advanced past first, first equals the storage's FirstIndex, the entries  *)
(* retained in memory start at that index, and applied >= first - 1.        *)
CompactClampsApplied ==
    [][\A i \in Peers :
          (/\ StorageFirstIndex(raft[i].RaftLog.storage) > raft[i].RaftLog.first
           /\ MaybeCompact(i))
              => LET l == raft'[i].RaftLog
                 IN /\ ~raft'[i].fatal
                    /\ l.first = StorageFirstIndex(l.storage)
                    /\ Len(l.entries) > 0 => l.entries[1].Index = l.first
                    /\ l.applied >= l.first - 1]_vars

(* C21 without its last clause: first and the retained entries after        *)
(* maybeCompact.                                                            *)
CompactDropsPrefix ==
    [][\A i \in Peers :
          (/\ StorageFirstIndex(raft[i].RaftLog.storage) > raft[i].RaftLog.first
           /\ MaybeCompact(i))
              => LET l == raft'[i].RaftLog
                 IN /\ ~raft'[i].fatal
                    /\ l.first = StorageFirstIndex(l.storage)
                    /\ Len(l.entries) > 0 => l.entries[1].Index = l.first
                    /\ Len(raft[i].RaftLog.entries) > 0
                          => Len(l.entries) = Len(raft[i].RaftLog.entries)
                                     - (l.first - raft[i].RaftLog.first)]_vars

(* C22: a peer becomes Leader at term T only if more than half of the peers *)
(* of its peer set, itself included, gave it their vote for term T: a       *)
(* grant sent for an earlier term does not count in the tally of T.         *)
LeaderHasMajority ==
    \A e \in elected :
        2 * Cardinality({v \in voted : v[2] = e[1] /\ v[3] = e[2]})
            > Cardinality(DOMAIN raft[e[2]].Prs)

(* The peers whose log holds at index n the entry the log of r holds. *)
Storing(r, n) == {p \in Peers : EntryAt(raft'[p], n) = EntryAt(r, n)}

(* C23: Match soundness.  After every step that leaves a peer L Leader: for *)
(* every other peer p, Match(p) is at most L's last index; when the step    *)
(* raised Match(p) on an accept response of p, still at L's term, the log   *)
(* of p agrees with the log of L at every index up to the new Match(p);     *)
(* and when the step raised committed, every newly committed index is       *)
(* stored, with L's entry, on more than half of the peers.                  *)
MatchSound ==
    [][\A i \in Peers :
          (raft'[i].State = StateLeader /\ ~raft'[i].fatal)
              => /\ \A p \in DOMAIN raft'[i].Prs \ {i} :
                       /\ raft'[i].Prs[p].Match <= LastIndex(raft'[i].RaftLog)
                       /\ (/\ raft[i].State = StateLeader
                           /\ raft'[i].Prs[p].Match > raft[i].Prs[p].Match
                           /\ raft'[p].Term = raft'[i].Term)
                              => \A k \in 1..raft'[i].Prs[p].Match :
                                    EntryAt(raft'[p], k) = EntryAt(raft'[i], k)
                 /\ raft[i].State = StateLeader
                       => \A n \in (raft[i].RaftLog.committed + 1)
                                        ..raft'[i].RaftLog.committed :
                             2 * Cardinality(Storing(raft'[i], n))
                                 > Cardinality(Peers)]_vars

(* C24: leader stability of local state: after every step that leaves a    *)
(* peer Leader its Lead and its Vote are its own id, and a step of a peer   *)
(* that is Leader before and after it, the Step of a MsgAppend or a         *)
(* MsgHeartbeat of its own term included, replaces or removes no entry of   *)
(* its log.                                                                 *)
LeaderStable ==
    [][\A i \in Peers :
          raft'[i].State = StateLeader
              => /\ raft'[i].Lead = i
                 /\ raft'[i].Vote = i
                 /\ raft[i].State = StateLeader
                       => /\ Len(raft'[i].RaftLog.entries)
                                >= Len(raft[i].RaftLog.entries)
                          /\ SubSeq(raft'[i].RaftLog.entries, 1,
                                    Len(raft[i].RaftLog.entries))
                                = raft[i].RaftLog.entries]_vars

(* C25: no Step call reaches a fatal abort: no peer has aborted, and on     *)
(* every Leader 1 <= Next(p) <= lastIndex + 1 for every peer p and the      *)
(* median of the Match values is at most lastIndex.                         *)
NoFatalAbort ==
    \A i \in Peers :
        /\ ~raft[i].fatal
        /\ raft[i].State = StateLeader
              => LET lastIndex == LastIndex(raft[i].RaftLog)
                     prs == raft[i].Prs
                 IN /\ \A p \in DOMAIN prs :
                          /\ 1 <= prs[p].Next
                          /\ prs[p].Next <= lastIndex + 1
                    /\ SortedAt(prs, (Cardinality(DOMAIN prs) - 1) \div 2)
                          <= lastIndex

=============================================================================
